---- MODULE Spec2Model ----
(***************************************************************************)
(* Signal-to-event reduction and integrity scoring of the video            *)
(* proctoring page: InterviewPage (handleFaceDetection,                    *)
(* handleObjectDetection, addEvent, addDemoEvent, startProctoring,         *)
(* stopProctoring), the hooks useFaceDetection (onResults of the real and  *)
(* of the fallback face mesh), useObjectDetection (runDetection and its    *)
(* polling timer) and useEventLogging (logEvent).                          *)
(*                                                                         *)
(* Time is Date.now() in milliseconds.  React state is read as the value   *)
(* of the latest render, refs as their .current.  A closure keeps the      *)
(* value of isActive of the render that created it.                        *)
(*                                                                         *)
(* An activation effect is taken to run once per activation, except in     *)
(* SpecRerun, which adds the re-runs of the object observer's effect; the  *)
(* start-up delay of the frame loop (1000 ms) is part of the step that     *)
(* starts it.                                                              *)
(* Spec is the page with its observers and demo controls; SpecObject,      *)
(* SpecReport, SpecScenarioA, SpecScenarioC, SpecScenarioE,                *)
(* SpecLookingAway, SpecStream and SpecRerun are the page with the steps   *)
(* of one concern (the object observer; the duration timer and the report  *)
(* page; an observer reporting at a fixed period or a fixed run of         *)
(* detections).  SpecPost is the route handler POST /api/log-event.        *)
(* stopProctoring leaves the page for /report,                             *)
(* so a page has one session; what was in flight at the stop can still be  *)
(* delivered before the page is unloaded.                                  *)
(***************************************************************************)
EXTENDS Integers, Sequences, FiniteSets, TLC

VARIABLES
    now,              \* Date.now()
    mountTime,        \* Date.now() when the page and its hooks were mounted
    cameraActive,     \* useState cameraActive
    isProctoring,     \* useState isProctoring
    stopped,          \* stopProctoring has run (the page is leaving for /report)
    startTime,        \* startTimeRef.current, <<>> for null
    events,           \* useState events
    integrityScore,   \* useState integrityScore
    lastEventTime,    \* lastEventTimeRef.current: an object keyed by event kind
    deductions,       \* DETECTION_CONFIG.SCORE_DEDUCTIONS
    pendingLog,       \* addEvent calls suspended at "await logEvent", per kind
    lastLogReturn,    \* what the latest settled logEvent call returned
    faceMesh,         \* the face mesh whose onResults callback is registered:
                      \* "none", "real" or "mock" (the fallback)
    lastFaceTime,     \* lastFaceTimeRef.current
    faceFrame,        \* a frame was sent and its results are not yet delivered
    objModelReady,    \* modelRef.current set and isModelReadyRef.current
    objStartTimer,    \* the setTimeout calls of startDetection that are pending
    objInterval,      \* detectionIntervalRef.current is set
    objIntervals,     \* the intervals made by setInterval and not cleared
    isDetecting,      \* isDetectingRef.current
    inFlight,         \* the detect() calls that have not settled
    interviewDuration, \* useState interviewDuration, in seconds
    report,           \* sessionStorage "currentReport", <<>> when absent
    loads,            \* the reports the report page has loaded, one per visit
    logCalls,         \* the bodies logEvent has posted to /api/log-event, in order
    request,          \* the request the route handler POST is called with, <<>> for none
    response          \* the response POST has returned for it, <<>> for none

vars == <<now, mountTime, cameraActive, isProctoring, stopped, startTime, events,
          integrityScore, lastEventTime, deductions, pendingLog, lastLogReturn,
          faceMesh, lastFaceTime, faceFrame,
          objModelReady, objStartTimer, objInterval, objIntervals, isDetecting,
          inFlight,
          interviewDuration, report, loads, logCalls, request, response>>

----------------------------------------------------------------------------
(* Bounds of the exploration *)

TickMs == 5000          \* the clock advances in steps of TickMs
MaxTicks == 3           \* clock steps of a behaviour
MaxEpochTicks == 1      \* clock steps of a behaviour that starts at Date.now() = 0
MaxEvents == 2          \* events in the log
MaxPending == 2         \* addEvent calls suspended at one time
MaxBatch == 2           \* raw predictions of one detection run
MaxObservers == 1       \* observers (face, object) that get loaded in a behaviour
MaxLoads == 2           \* visits of the report page
ScenarioMs == 1000      \* the period at which a scenario's observer reports
ScenarioLength == 11000 \* the length of a scenario, from the start of its session
ScenarioEnd == 13000    \* a scenario's observer reports until this long after the start
DetectionGapMs == 2000  \* the time between the two detections of a scenario
MaxTimers == 3          \* timers of the object observer (pending timeouts, intervals)

----------------------------------------------------------------------------
(* src/config/constants.ts *)

FACE_ABSENT_THRESHOLD == 10000
LOOKING_AWAY_THRESHOLD == 5000
CONFIDENCE_THRESHOLD == 60            \* 0.6, confidences are in hundredths
FACE_EVENTS == 5000
OBJECT_EVENTS == 10000
INITIAL_SCORE == 100
MS_PER_SECOND == 1000

TARGET_OBJECTS == {"cell phone", "book", "laptop", "mouse", "keyboard"}

EVENT_TYPES == {"face_absent", "looking_away", "multiple_faces",
                "phone_detected", "book_detected"}

SCORE_DEDUCTIONS ==
    [LOOKING_AWAY |-> 5, FACE_ABSENT |-> 10, MULTIPLE_FACES |-> 15,
     PHONE_DETECTED |-> 20, BOOK_DETECTED |-> 20]

\* The table as a stricter deployment configures it: every kind has its own entry.
StrictDeductions ==
    [LOOKING_AWAY |-> 10, FACE_ABSENT |-> 30, MULTIPLE_FACES |-> 40,
     PHONE_DETECTED |-> 60, BOOK_DETECTED |-> 50]

Max(a, b) == IF a >= b THEN a ELSE b

----------------------------------------------------------------------------
(* InterviewPage: the cooldown ledger and addEvent *)

isActive == isProctoring /\ cameraActive

\* InCooldown with no cooldown window.
InCooldownNever(ledger, eventKey, t, cooldown) == FALSE

\* `lastEventTimeRef.current[eventKey] && now - lastEventTimeRef.current[eventKey] < cooldown`:
\* a missing key reads undefined, and undefined and 0 are both falsy.
InCooldown(ledger, eventKey, t, cooldown) ==
    /\ eventKey \in DOMAIN ledger
    /\ ledger[eventKey] # 0
    /\ t - ledger[eventKey] < cooldown

\* Stamp that writes the time to every entry of the ledger.
StampAll(ledger, eventKey, t) ==
    [k \in DOMAIN ledger \cup {eventKey} |-> t]

\* `lastEventTimeRef.current[eventKey] = now`
Stamp(ledger, eventKey, t) ==
    [k \in DOMAIN ledger \cup {eventKey} |-> IF k = eventKey THEN t ELSE ledger[k]]

\* ScoreDeduction with no case for book_detected.
ScoreDeductionNoBook(type, table) ==
    CASE type = "looking_away"   -> table.LOOKING_AWAY
      [] type = "face_absent"    -> table.FACE_ABSENT
      [] type = "phone_detected" -> table.PHONE_DETECTED
      [] type = "multiple_faces" -> table.MULTIPLE_FACES
      [] OTHER                   -> 0

\* The switch of addEvent: book_detected shares the case of phone_detected.
ScoreDeduction(type, table) ==
    CASE type = "looking_away"   -> table.LOOKING_AWAY
      [] type = "face_absent"    -> table.FACE_ABSENT
      [] type = "phone_detected" -> table.PHONE_DETECTED
      [] type = "book_detected"  -> table.PHONE_DETECTED
      [] type = "multiple_faces" -> table.MULTIPLE_FACES
      [] OTHER                   -> 0

\* NewScore without its floor.
NewScoreNoFloor(prev, scoreDeduction) == prev - scoreDeduction

\* NewScore with the deduction added.
NewScoreAdds(prev, scoreDeduction) == Max(0, prev + scoreDeduction)

\* `Math.max(0, prev - scoreDeduction)`
NewScore(prev, scoreDeduction) == Max(0, prev - scoreDeduction)

\* The description each caller of addEvent passes with a type: the handlers and
\* the demo controls use the same text for a type.
Description(type) ==
    CASE type = "face_absent"    -> "No face detected in frame"
      [] type = "multiple_faces" -> "Multiple faces detected in frame"
      [] type = "looking_away"   -> "Candidate looked away from screen"
      [] type = "phone_detected" -> "Mobile phone detected in frame"
      [] type = "book_detected"  -> "Book or notes detected in frame"

\* The event addEvent builds: id is Date.now().toString(), a decimal numeral that
\* is equal for equal clock readings and distinct otherwise, kept as the reading.
NewEvent(type, severity, t) ==
    [id |-> t, type |-> type, timestamp |-> t, description |-> Description(type),
     severity |-> severity]

\* `interviewIdRef.current`: `interview-${Date.now()}` of the first render, kept
\* as the clock reading; the ref is assigned nowhere else.
interviewIdRef == mountTime

\* LogEventBody with an identifier made at the call.
LogEventBodyNewId(type, severity, t) ==
    [type |-> type, description |-> Description(type), severity |-> severity,
     interviewId |-> t, timestamp |-> t]

\* The body logEvent posts for the event addEvent hands it:
\* `{...event, interviewId, timestamp: event.timestamp || new Date()}`, where
\* event.timestamp is the Date of the new event and interviewId the argument
\* of useEventLogging.
LogEventBody(type, severity, t) ==
    [type |-> type, description |-> Description(type), severity |-> severity,
     interviewId |-> interviewIdRef, timestamp |-> t]

\* The page state the handlers thread through: the ledger, the log and the
\* addEvent calls suspended at their forwarding call.
PageState ==
    [ledger |-> lastEventTime, events |-> events, pending |-> pendingLog,
     calls |-> logCalls]

\* AddEventBegin with the new event put in front of the log.
AddEventPrepends(st, type, severity, t) ==
    [st EXCEPT !.events = <<NewEvent(type, severity, t)>> \o @,
               !.pending = [@ EXCEPT ![type] = @ + 1],
               !.calls = Append(@, LogEventBody(type, severity, t))]

\* addEvent up to its `await logEvent(...)`: the event is appended and the
\* forwarding call is started; the deduction waits for the call to settle.
AddEventBegin(st, type, severity, t) ==
    [st EXCEPT !.events = Append(@, NewEvent(type, severity, t)),
               !.pending = [@ EXCEPT ![type] = @ + 1],
               !.calls = Append(@, LogEventBody(type, severity, t))]

\* Gate with the ledger stamped for the candidate it rejects.
GateStampsRejected(st, eventKey, severity, t, cooldown) ==
    IF InCooldown(st.ledger, eventKey, t, cooldown)
    THEN [st EXCEPT !.ledger = Stamp(@, eventKey, t)]
    ELSE AddEventBegin([st EXCEPT !.ledger = Stamp(@, eventKey, t)],
                       eventKey, severity, t)

\* Gate with a forwarding call for the candidate it rejects.
GatePostsRejected(st, eventKey, severity, t, cooldown) ==
    IF InCooldown(st.ledger, eventKey, t, cooldown)
    THEN [st EXCEPT !.calls = Append(@, LogEventBody(eventKey, severity, t))]
    ELSE AddEventBegin([st EXCEPT !.ledger = Stamp(@, eventKey, t)],
                       eventKey, severity, t)

\* One branch of a detection handler: cooldown check, stamp, addEvent.
Gate(st, eventKey, severity, t, cooldown) ==
    IF InCooldown(st.ledger, eventKey, t, cooldown)
    THEN st
    ELSE AddEventBegin([st EXCEPT !.ledger = Stamp(@, eventKey, t)],
                       eventKey, severity, t)

\* HandleFaceDetection with the looking_away branch ahead of multiple_faces.
HandleFaceDetectionAwayFirst(st, result, t) ==
    IF ~result.hasFace
    THEN Gate(st, "face_absent", "high", t, FACE_EVENTS)
    ELSE IF result.isLookingAway
    THEN Gate(st, "looking_away", "medium", t, FACE_EVENTS)
    ELSE IF result.faceCount > 1
    THEN Gate(st, "multiple_faces", "high", t, FACE_EVENTS)
    ELSE st

HandleFaceDetection(st, result, t) ==
    IF ~result.hasFace
    THEN Gate(st, "face_absent", "high", t, FACE_EVENTS)
    ELSE IF result.faceCount > 1
    THEN Gate(st, "multiple_faces", "high", t, FACE_EVENTS)
    ELSE IF result.isLookingAway
    THEN Gate(st, "looking_away", "medium", t, FACE_EVENTS)
    ELSE st

\* HandleOneDetection with an event for every other class that reaches it.
HandleOneDetectionAnyClass(st, detection, t) ==
    IF detection.class = "cell phone"
    THEN Gate(st, "phone_detected", "high", t, OBJECT_EVENTS)
    ELSE Gate(st, "book_detected", "high", t, OBJECT_EVENTS)

HandleOneDetection(st, detection, t) ==
    IF detection.class = "cell phone"
    THEN Gate(st, "phone_detected", "high", t, OBJECT_EVENTS)
    ELSE IF detection.class = "book"
    THEN Gate(st, "book_detected", "high", t, OBJECT_EVENTS)
    ELSE st

RECURSIVE HandleObjectDetection(_, _, _)
HandleObjectDetection(st, detections, t) ==
    IF detections = <<>>
    THEN st
    ELSE HandleObjectDetection(HandleOneDetection(st, Head(detections), t),
                               Tail(detections), t)

PendingCount(pending) ==
    pending["face_absent"] + pending["looking_away"] + pending["multiple_faces"]
        + pending["phone_detected"] + pending["book_detected"]

\* The exploration keeps the log and the suspended calls within the bounds.
WithinBounds(st) ==
    /\ Len(st.events) <= MaxEvents
    /\ PendingCount(st.pending) <= MaxPending

Commit(st) ==
    /\ WithinBounds(st)
    /\ lastEventTime' = st.ledger
    /\ events' = st.events
    /\ pendingLog' = st.pending
    /\ logCalls' = st.calls

----------------------------------------------------------------------------
(* useFaceDetection: the onResults handlers and the fallback generator *)

MaxFaces == 2           \* faces of one observation of the real detector

CYCLE_TIME == 120000    \* cycleTime of MockFaceMesh.simulateDetection

\* The face count of the results MockFaceMesh generates at time t:
\* cyclePosition < 0.95 one face, < 0.98 none, otherwise two.
MockFaceCount(t) ==
    IF (t % CYCLE_TIME) * 100 < 95 * CYCLE_TIME THEN 1
    ELSE IF (t % CYCLE_TIME) * 100 < 98 * CYCLE_TIME THEN 0
    ELSE 2

\* FaceTimeAfter with the refresh made for every frame.
FaceTimeAfterAnyFrame(mesh, faceCount, last, t) == t

\* lastFaceTimeRef.current after onResults has processed faceCount faces at t.
\* The real handler refreshes it for any face before it looks at the count; the
\* fallback handler returns on faceCount > 1 before its refresh.
FaceTimeAfter(mesh, faceCount, last, t) ==
    IF mesh = "real"
    THEN IF faceCount > 0 THEN t ELSE last
    ELSE IF faceCount = 1 THEN t ELSE last

\* FaceResult with the debounce of the absence applied to several faces as well.
FaceResultDebounced(mesh, faceCount, last, t) ==
    IF faceCount > 1 /\ t - last > FACE_ABSENT_THRESHOLD
    THEN <<[hasFace |-> TRUE, faceCount |-> faceCount, isLookingAway |-> FALSE]>>
    ELSE IF faceCount = 0 /\ t - FaceTimeAfter(mesh, faceCount, last, t) > FACE_ABSENT_THRESHOLD
    THEN <<[hasFace |-> FALSE, faceCount |-> 0, isLookingAway |-> FALSE]>>
    ELSE <<>>

\* What onResults passes to onFaceDetection, <<>> when it passes nothing.
FaceResult(mesh, faceCount, last, t) ==
    IF faceCount > 1
    THEN <<[hasFace |-> TRUE, faceCount |-> faceCount, isLookingAway |-> FALSE]>>
    ELSE IF faceCount = 0 /\ t - FaceTimeAfter(mesh, faceCount, last, t) > FACE_ABSENT_THRESHOLD
    THEN <<[hasFace |-> FALSE, faceCount |-> 0, isLookingAway |-> FALSE]>>
    ELSE <<>>

\* `if (!isActive || !isModelReadyRef.current) return;`: isActive is the value the
\* callback captured, true in the render whose effect registered it, and
\* isModelReadyRef is set together with faceMeshRef and never cleared.
ResultsProcessed == faceMesh # "none"

\* onResults as a whole, on the page state.
OnResults(st, mesh, faceCount, last, t) ==
    IF FaceResult(mesh, faceCount, last, t) = <<>>
    THEN st
    ELSE HandleFaceDetection(st, FaceResult(mesh, faceCount, last, t)[1], t)

----------------------------------------------------------------------------
(* useObjectDetection: runDetection's filter *)

\* Raw predictions of the classifier: class and score in hundredths.
Predictions ==
    { [class |-> "cell phone", score |-> 75], [class |-> "cell phone", score |-> 60],
      [class |-> "cell phone", score |-> 55], [class |-> "book", score |-> 75],
      [class |-> "laptop", score |-> 75],     [class |-> "person", score |-> 90] }

Batches == UNION { [1..n -> Predictions] : n \in 0..MaxBatch }

\* Retained without the test of the score.
RetainedAnyScore(prediction) == prediction.class \in TARGET_OBJECTS

\* Retained without the boundary value.
RetainedAbove(prediction) ==
    /\ prediction.class \in TARGET_OBJECTS
    /\ prediction.score > CONFIDENCE_THRESHOLD

Retained(prediction) ==
    /\ prediction.class \in TARGET_OBJECTS
    /\ prediction.score >= CONFIDENCE_THRESHOLD

\* `predictions.filter(...).map(...)`
RECURSIVE TargetDetections(_)
TargetDetections(predictions) ==
    IF predictions = <<>>
    THEN <<>>
    ELSE IF Retained(Head(predictions))
    THEN <<[class |-> Head(predictions).class, confidence |-> Head(predictions).score]>>
             \o TargetDetections(Tail(predictions))
    ELSE TargetDetections(Tail(predictions))

\* `if (targetDetections.length > 0) onObjectDetection(targetDetections)`
OnPredictions(st, predictions, t) ==
    IF TargetDetections(predictions) = <<>>
    THEN st
    ELSE HandleObjectDetection(st, TargetDetections(predictions), t)

----------------------------------------------------------------------------
(* useEventLogging *)

ForwardOutcomes == {"ok", "http_error", "network_error"}

\* logEvent with a catch block that rethrows.
LogEventRethrows(outcome) == IF outcome = "ok" THEN "result" ELSE "throw"

\* logEvent: the response is returned when it is ok; a failed fetch and a non-ok
\* response end in the catch block, which returns null.
LogEvent(outcome) == IF outcome = "ok" THEN "result" ELSE "null"

----------------------------------------------------------------------------
(* The route handler POST /api/log-event *)

\* The content-type headers of the requests: "absent" for no header.
ContentTypes ==
    {"absent", "application/json", "application/json; charset=utf-8", "text/plain"}

\* `contentType.includes("application/json")`
IncludesJson(contentType) ==
    contentType \in {"application/json", "application/json; charset=utf-8"}

\* A field of a parsed body: "absent" for undefined, "" for the empty string,
\* else a string with content.
FieldValues == {"absent", "", "value"}

\* The bodies of the requests: an "unparsable" text makes request.json() throw,
\* the text "null" parses to null, whose destructuring throws; the others
\* parse to an object with these fields.
Bodies ==
    [text : {"unparsable", "null"}, type : {"absent"}, description : {"absent"},
     severity : {"absent"}]
        \cup [text : {"object"}, type : FieldValues, description : FieldValues,
              severity : FieldValues]

Requests == [contentType : ContentTypes, body : Bodies]

\* `!value` is false
Truthy(value) == value \notin {"absent", ""}

\* POST without the validation of the required fields.
POSTUnvalidated(req, t) ==
    IF req.contentType = "absent" \/ ~IncludesJson(req.contentType)
    THEN [status |-> 400, body |-> [error |-> "Content-Type must be application/json"]]
    ELSE IF req.body.text \in {"unparsable", "null"}
    THEN [status |-> 500, body |-> [error |-> "Failed to log event"]]
    ELSE [status |-> 200,
          body |-> [success |-> TRUE, id |-> t, message |-> "Event logged successfully"]]

\* POST called with req at time t: the status and the JSON body of its response.
\* The id is `event-${Date.now()}`, kept as the clock reading.
POST(req, t) ==
    IF req.contentType = "absent" \/ ~IncludesJson(req.contentType)
    THEN [status |-> 400, body |-> [error |-> "Content-Type must be application/json"]]
    ELSE IF req.body.text \in {"unparsable", "null"}
    THEN [status |-> 500, body |-> [error |-> "Failed to log event"]]
    ELSE IF ~Truthy(req.body.type) \/ ~Truthy(req.body.description)
                \/ ~Truthy(req.body.severity)
    THEN [status |-> 400,
          body |-> [error |-> "Missing required fields: type, description, severity"]]
    ELSE [status |-> 200,
          body |-> [success |-> TRUE, id |-> t, message |-> "Event logged successfully"]]

----------------------------------------------------------------------------
(* The state after the page is mounted *)

\* Date.now() at the mount: the epoch, and a time late in the fallback generator's
\* cycle, from where the clock steps reach its no-face and its two-face window.
MountTimes == {0, 109500}

InitWith(tables) ==
    /\ now \in MountTimes
    /\ mountTime = now
    /\ cameraActive = FALSE
    /\ isProctoring = FALSE
    /\ stopped = FALSE
    /\ startTime = <<>>
    /\ events = <<>>
    /\ integrityScore = INITIAL_SCORE
    /\ lastEventTime = [k \in {} |-> 0]
    /\ deductions \in tables
    /\ pendingLog = [k \in EVENT_TYPES |-> 0]
    /\ lastLogReturn = "none"
    /\ faceMesh = "none"
    /\ lastFaceTime = now
    /\ faceFrame = FALSE
    /\ objModelReady = FALSE
    /\ objStartTimer = 0
    /\ objInterval = FALSE
    /\ objIntervals = 0
    /\ isDetecting = FALSE
    /\ inFlight = 0
    /\ interviewDuration = 0
    /\ report = <<>>
    /\ loads = <<>>
    /\ logCalls = <<>>
    /\ request = <<>>
    /\ response = <<>>

Init == InitWith({SCORE_DEDUCTIONS})

pageVars == <<lastEventTime, events, pendingLog, logCalls>>
faceVars == <<faceMesh, lastFaceTime, faceFrame>>
objVars == <<objModelReady, objStartTimer, objInterval, objIntervals, isDetecting,
             inFlight>>
sessionVars == <<cameraActive, isProctoring, stopped, startTime, interviewDuration,
                 report, loads>>
\* What no step of the page writes: the mount time, the configuration, and the
\* request and the response of the route handler.
fixedVars == <<mountTime, deductions, request, response>>

----------------------------------------------------------------------------
(* Actions *)

\* Observers loaded so far.
Loaded == (IF faceMesh # "none" THEN 1 ELSE 0) + (IF objModelReady THEN 1 ELSE 0)

\* Time passes, until stopProctoring sends the browser to the report page.
Tick ==
    /\ ~stopped
    /\ now - mountTime < TickMs * (IF mountTime = 0 THEN MaxEpochTicks ELSE MaxTicks)
    /\ now' = now + TickMs
    /\ UNCHANGED <<pageVars, faceVars, objVars, sessionVars, fixedVars,
                   integrityScore, lastLogReturn>>

\* initializeCamera, getUserMedia granted.
InitializeCamera ==
    /\ ~cameraActive
    /\ ~stopped
    /\ cameraActive' = TRUE
    /\ UNCHANGED <<now, pageVars, faceVars, objVars, fixedVars, integrityScore,
                   lastLogReturn, isProctoring, stopped, startTime, interviewDuration,
                   report, loads>>

\* StartProctoring without `startTimeRef.current = new Date()`.
StartProctoringNoStartTime ==
    /\ cameraActive
    /\ ~isProctoring
    /\ ~stopped
    /\ isProctoring' = TRUE
    /\ events' = <<>>
    /\ integrityScore' = INITIAL_SCORE
    /\ interviewDuration' = 0
    /\ UNCHANGED <<now, lastEventTime, pendingLog, logCalls, faceVars, objVars, fixedVars,
                   lastLogReturn, cameraActive, stopped, report, loads, startTime>>

\* startProctoring, up to its await: the Start button is rendered while the
\* camera is active and the page is not proctoring.
StartProctoring ==
    /\ cameraActive
    /\ ~isProctoring
    /\ ~stopped
    /\ isProctoring' = TRUE
    /\ startTime' = <<now>>
    /\ events' = <<>>
    /\ integrityScore' = INITIAL_SCORE
    /\ interviewDuration' = 0
    /\ UNCHANGED <<now, lastEventTime, pendingLog, logCalls, faceVars, objVars, fixedVars,
                   lastLogReturn, cameraActive, stopped, report, loads>>

\* initializeFaceMesh as called by the activation effect: the real face mesh, or
\* the fallback when loading it throws.
InitializeFaceMesh(mesh) ==
    /\ isActive
    /\ faceMesh = "none"
    /\ Loaded < MaxObservers
    /\ faceMesh' = mesh
    /\ UNCHANGED <<now, pageVars, objVars, sessionVars, fixedVars, integrityScore,
                   lastLogReturn, lastFaceTime, faceFrame>>

\* processFrame sends a frame (the fallback arms its next simulated result).
SendFrame ==
    /\ isActive
    /\ faceMesh # "none"
    /\ ~faceFrame
    /\ faceFrame' = TRUE
    /\ UNCHANGED <<now, pageVars, objVars, sessionVars, fixedVars, integrityScore,
                   lastLogReturn, faceMesh, lastFaceTime>>

\* The results of the frame in flight reach onResults.
FaceResults(faceCount) ==
    /\ faceFrame
    /\ faceMesh = "mock" => faceCount = MockFaceCount(now)
    /\ faceFrame' = FALSE
    /\ IF ResultsProcessed
       THEN /\ lastFaceTime' = FaceTimeAfter(faceMesh, faceCount, lastFaceTime, now)
            /\ Commit(OnResults(PageState, faceMesh, faceCount, lastFaceTime, now))
       ELSE UNCHANGED <<lastFaceTime, pageVars>>
    /\ UNCHANGED <<now, objVars, sessionVars, fixedVars, integrityScore,
                   lastLogReturn, faceMesh>>

\* loadModel succeeds.
LoadModel ==
    /\ isActive
    /\ ~objModelReady
    /\ Loaded < MaxObservers
    /\ objModelReady' = TRUE
    /\ UNCHANGED <<now, pageVars, faceVars, sessionVars, fixedVars, integrityScore,
                   lastLogReturn, objStartTimer, objInterval, objIntervals,
                   isDetecting, inFlight>>

\* startDetection, called by the activation effect once the model is loaded:
\* it arms the 2000 ms timeout that will create the polling timer.
StartDetection ==
    /\ isActive
    /\ objModelReady
    /\ ~objInterval
    /\ objStartTimer = 0
    /\ objStartTimer' = objStartTimer + 1
    /\ UNCHANGED <<now, pageVars, faceVars, sessionVars, fixedVars, integrityScore,
                   lastLogReturn, objModelReady, objInterval, objIntervals,
                   isDetecting, inFlight>>

\* The timeout of startDetection fires: `detectionIntervalRef.current =
\* setInterval(...)`.  The callback tests nothing.
StartTimerFires ==
    /\ objStartTimer > 0
    /\ objStartTimer' = objStartTimer - 1
    /\ objInterval' = TRUE
    /\ objIntervals' = objIntervals + 1
    /\ UNCHANGED <<now, pageVars, faceVars, sessionVars, fixedVars, integrityScore,
                   lastLogReturn, objModelReady, isDetecting, inFlight>>

\* PollTick without the test of isDetectingRef, in the timer's callback and in
\* runDetection.
PollTickUnguarded ==
    /\ objIntervals > 0
    /\ objModelReady
    /\ isDetecting' = TRUE
    /\ inFlight' = inFlight + 1
    /\ UNCHANGED <<now, pageVars, faceVars, sessionVars, fixedVars, integrityScore,
                   lastLogReturn, objModelReady, objStartTimer, objInterval,
                   objIntervals>>

\* A tick of the polling timer that passes its guard (isActive is the value the
\* timer's callback captured, true when startDetection ran), and runDetection up
\* to `await modelRef.current.detect(...)`.
PollTick ==
    /\ objIntervals > 0
    /\ ~isDetecting /\ objModelReady
    /\ isDetecting' = TRUE
    /\ inFlight' = inFlight + 1
    /\ UNCHANGED <<now, pageVars, faceVars, sessionVars, fixedVars, integrityScore,
                   lastLogReturn, objModelReady, objStartTimer, objInterval,
                   objIntervals>>

\* detect() resolves: filter, callback, finally.
DetectionDone(predictions) ==
    /\ inFlight > 0
    /\ isDetecting' = FALSE
    /\ inFlight' = inFlight - 1
    /\ Commit(OnPredictions(PageState, predictions, now))
    /\ UNCHANGED <<now, faceVars, sessionVars, fixedVars, integrityScore,
                   lastLogReturn, objModelReady, objStartTimer, objInterval,
                   objIntervals>>

\* DetectionFails without the finally block.
DetectionFailsFlagStays ==
    /\ inFlight > 0
    /\ inFlight' = inFlight - 1
    /\ UNCHANGED <<now, pageVars, faceVars, sessionVars, fixedVars, integrityScore,
                   lastLogReturn, objModelReady, objStartTimer, objInterval,
                   objIntervals, isDetecting>>

\* detect() rejects: catch, finally.
DetectionFails ==
    /\ inFlight > 0
    /\ isDetecting' = FALSE
    /\ inFlight' = inFlight - 1
    /\ UNCHANGED <<now, pageVars, faceVars, sessionVars, fixedVars, integrityScore,
                   lastLogReturn, objModelReady, objStartTimer, objInterval,
                   objIntervals>>

\* A demo control: addDemoEvent calls addEvent with no cooldown check.
DemoTypes == {"face_absent", "phone_detected", "book_detected", "multiple_faces"}

AddDemoEvent(type) ==
    /\ isProctoring
    /\ Commit(AddEventBegin(PageState, type, "high", now))
    /\ UNCHANGED <<now, faceVars, objVars, sessionVars, fixedVars, integrityScore,
                   lastLogReturn>>

\* addEvent after `await logEvent(...)`: a value returned by logEvent lets it go
\* on to the deduction, an exception thrown by it would end addEvent there.
ScoreAfterLog(score, type, returned) ==
    IF returned = "throw"
    THEN score
    ELSE NewScore(score, ScoreDeduction(type, deductions))

\* The forwarding call of a suspended addEvent settles and addEvent resumes.
LogEventSettles(type, outcome) ==
    /\ pendingLog[type] > 0
    /\ pendingLog' = [pendingLog EXCEPT ![type] = @ - 1]
    /\ lastLogReturn' = LogEvent(outcome)
    /\ integrityScore' = ScoreAfterLog(integrityScore, type, LogEvent(outcome))
    /\ UNCHANGED <<now, lastEventTime, events, logCalls, faceVars, objVars,
                   sessionVars, fixedVars>>

\* The report stopProctoring stores.
ReportData ==
    [interviewId |-> interviewIdRef, events |-> events, integrityScore |-> integrityScore,
     duration |-> interviewDuration, startTime |-> startTime, endTime |-> now]

\* stopProctoring, and the render that follows it: both observers are told to
\* stop (the frame loop ends, the polling timer is cleared if it exists), the
\* report is stored.  A frame or a detection in flight stays in flight, and so
\* does a pending timeout of startDetection.
StopProctoring ==
    /\ isProctoring
    /\ isProctoring' = FALSE
    /\ cameraActive' = FALSE
    /\ stopped' = TRUE
    /\ objInterval' = FALSE
    /\ objIntervals' = IF objInterval THEN objIntervals - 1 ELSE objIntervals
    /\ report' = <<ReportData>>
    /\ UNCHANGED <<now, pageVars, fixedVars, integrityScore, lastLogReturn, startTime,
                   interviewDuration, loads,
                   faceVars, objModelReady, objStartTimer, isDetecting, inFlight>>

\* The one-second timer of the duration effect fires in a session.
DurationTick ==
    /\ isProctoring
    /\ startTime # <<>>
    /\ interviewDuration' = (now - startTime[1]) \div MS_PER_SECOND
    /\ interviewDuration' # interviewDuration
    /\ UNCHANGED <<now, pageVars, faceVars, objVars, fixedVars, integrityScore,
                   lastLogReturn, cameraActive, isProctoring, stopped, startTime,
                   report, loads>>

\* What the report page shows when sessionStorage has no "currentReport".
DemoReport(t) ==
    [interviewId |-> "demo-interview", events |-> <<>>, integrityScore |-> INITIAL_SCORE,
     duration |-> 0, startTime |-> <<t>>, endTime |-> t]

\* loadReport of the report page, once per visit of the page: the stored report
\* is parsed, shown and removed from sessionStorage; with nothing stored the
\* demo report is shown.
LoadReport ==
    /\ stopped
    /\ Len(loads) < MaxLoads
    /\ loads' = Append(loads, IF report # <<>> THEN report[1] ELSE DemoReport(now))
    /\ report' = <<>>
    /\ UNCHANGED <<now, pageVars, faceVars, objVars, fixedVars, integrityScore,
                   lastLogReturn, cameraActive, isProctoring, stopped, startTime,
                   interviewDuration>>

Next ==
    \/ Tick
    \/ InitializeCamera
    \/ StartProctoring
    \/ \E mesh \in {"real", "mock"} : InitializeFaceMesh(mesh)
    \/ SendFrame
    \/ \E faceCount \in 0..MaxFaces : FaceResults(faceCount)
    \/ LoadModel
    \/ StartDetection
    \/ StartTimerFires
    \/ PollTick
    \/ \E predictions \in Batches : DetectionDone(predictions)
    \/ DetectionFails
    \/ \E type \in DemoTypes : AddDemoEvent(type)
    \/ \E type \in EVENT_TYPES, outcome \in ForwardOutcomes : LogEventSettles(type, outcome)
    \/ StopProctoring

Spec == Init /\ [][Next]_vars

\* The same page under each deduction table.
InitTables == InitWith({SCORE_DEDUCTIONS, StrictDeductions})
SpecTables == InitTables /\ [][Next]_vars

\* The page with the object observer alone: no face mesh is loaded and no demo
\* control is pressed.
NextObject ==
    \/ Tick
    \/ InitializeCamera
    \/ StartProctoring
    \/ LoadModel
    \/ StartDetection
    \/ StartTimerFires
    \/ PollTick
    \/ \E predictions \in Batches : DetectionDone(predictions)
    \/ DetectionFails
    \/ \E type \in EVENT_TYPES, outcome \in ForwardOutcomes : LogEventSettles(type, outcome)
    \/ StopProctoring

SpecObject == Init /\ [][NextObject]_vars

\* The session and its report: the page with its duration timer and the demo
\* controls as the source of events, and the report page that follows the stop.
NextReport ==
    \/ Tick
    \/ InitializeCamera
    \/ StartProctoring
    \/ DurationTick
    \/ \E type \in DemoTypes : AddDemoEvent(type)
    \/ \E type \in EVENT_TYPES, outcome \in ForwardOutcomes : LogEventSettles(type, outcome)
    \/ StopProctoring
    \/ LoadReport

SpecReport == Init /\ [][NextReport]_vars

\* Time passes before the session starts.
TickIdle == ~isProctoring /\ Tick

\* The face observer of a scenario: ScenarioMs after the last reading the real
\* face mesh delivers the results of the next frame, faceCount faces, to onResults.
Observed(faceCount) ==
    /\ isActive
    /\ faceMesh = "real"
    /\ ~faceFrame
    /\ now - startTime[1] < ScenarioEnd
    /\ now' = now + ScenarioMs
    /\ lastFaceTime' = FaceTimeAfter(faceMesh, faceCount, lastFaceTime, now')
    /\ Commit(OnResults(PageState, faceMesh, faceCount, lastFaceTime, now'))
    /\ UNCHANGED <<objVars, sessionVars, fixedVars, integrityScore, lastLogReturn,
                   faceMesh, faceFrame>>

\* Scenario A: the page is opened, after some time the session is started with
\* the real face mesh, and from then on the observer reports no face every
\* ScenarioMs; forwarding calls settle at any time.
NextScenarioA ==
    \/ TickIdle
    \/ InitializeCamera
    \/ StartProctoring
    \/ InitializeFaceMesh("real")
    \/ Observed(0)
    \/ \E type \in EVENT_TYPES, outcome \in ForwardOutcomes : LogEventSettles(type, outcome)

SpecScenarioA == Init /\ [][NextScenarioA]_vars

\* The detections of Scenario C: a phone at 0.75, then a phone at 0.55.
ClearPhone == [class |-> "cell phone", score |-> 75]
FaintPhone == [class |-> "cell phone", score |-> 55]

\* The polling timer starts the first detection of the session.
FirstPoll == events = <<>> /\ PollTick

\* The first detection of the session resolves with the clear phone.
FirstDetection ==
    /\ isActive
    /\ events = <<>>
    /\ DetectionDone(<<ClearPhone>>)

\* The polling timer fires DetectionGapMs after the first detection and
\* runDetection starts the second one.
PollAfterGap ==
    /\ isActive
    /\ Len(events) = 1
    /\ now = events[1].timestamp
    /\ objInterval
    /\ ~isDetecting /\ objModelReady
    /\ now' = now + DetectionGapMs
    /\ isDetecting' = TRUE
    /\ inFlight' = inFlight + 1
    /\ UNCHANGED <<pageVars, faceVars, sessionVars, fixedVars, integrityScore,
                   lastLogReturn, objModelReady, objStartTimer, objInterval,
                   objIntervals>>

\* The second detection resolves with the faint phone.
SecondDetection ==
    /\ isActive
    /\ Len(events) = 1
    /\ now = events[1].timestamp + DetectionGapMs
    /\ DetectionDone(<<FaintPhone>>)

\* Scenario C: a session with the object observer, whose first detection sees a
\* clear phone and whose second, DetectionGapMs later, a faint one.
NextScenarioC ==
    \/ TickIdle
    \/ InitializeCamera
    \/ StartProctoring
    \/ LoadModel
    \/ StartDetection
    \/ StartTimerFires
    \/ FirstPoll
    \/ FirstDetection
    \/ PollAfterGap
    \/ SecondDetection
    \/ \E type \in EVENT_TYPES, outcome \in ForwardOutcomes : LogEventSettles(type, outcome)
    \/ StopProctoring

SpecScenarioC == Init /\ [][NextScenarioC]_vars

\* The batches of which the filter keeps nothing.
QuietBatches == { predictions \in Batches : TargetDetections(predictions) = <<>> }

\* The results of a frame in a scenario where the camera sees one face all the
\* time: the real face mesh reports the one face, the fallback what it generates.
QuietFaceResults ==
    \E faceCount \in 0..MaxFaces :
        /\ faceMesh = "real" => faceCount = 1
        /\ FaceResults(faceCount)

\* Scenario E: a session in which the camera shows one face and nothing else for
\* its whole duration, with each detector loaded or failed, and no demo control
\* pressed.
NextScenarioE ==
    \/ Tick
    \/ InitializeCamera
    \/ StartProctoring
    \/ \E mesh \in {"real", "mock"} : InitializeFaceMesh(mesh)
    \/ SendFrame
    \/ QuietFaceResults
    \/ LoadModel
    \/ StartDetection
    \/ StartTimerFires
    \/ PollTick
    \/ \E predictions \in QuietBatches : DetectionDone(predictions)
    \/ DetectionFails
    \/ \E type \in EVENT_TYPES, outcome \in ForwardOutcomes : LogEventSettles(type, outcome)
    \/ StopProctoring

SpecScenarioE == Init /\ [][NextScenarioE]_vars

\* The face observer while the participant looks away from the screen: the real
\* face mesh delivers one face, and onResults computes nothing from its landmarks
\* (lookingAwayThreshold and lastLookingAwayTimeRef are read by no handler), so
\* the frame is processed as any frame with one face.
LookingAway == Observed(1)

\* A session with the real face mesh in which the participant looks away from
\* the screen from the start on.
NextLookingAway ==
    \/ TickIdle
    \/ InitializeCamera
    \/ StartProctoring
    \/ InitializeFaceMesh("real")
    \/ LookingAway
    \/ StopProctoring

SpecLookingAway == Init /\ [][NextLookingAway]_vars

\* The object observer of a stream: ScenarioMs after the last reading the
\* polling timer fires, runDetection runs and detect() resolves with the
\* predictions.
Detected(predictions) ==
    /\ isActive
    /\ objInterval
    /\ ~isDetecting /\ objModelReady
    /\ now - startTime[1] < ScenarioEnd
    /\ now' = now + ScenarioMs
    /\ Commit(OnPredictions(PageState, predictions, now'))
    /\ UNCHANGED <<faceVars, objVars, sessionVars, fixedVars, integrityScore,
                   lastLogReturn>>

\* A continuous stream of candidates of one kind: a session whose observer, the
\* real face mesh or the object model, reports two faces, or a clear phone,
\* every ScenarioMs; forwarding calls settle at any time.
NextStream ==
    \/ TickIdle
    \/ InitializeCamera
    \/ StartProctoring
    \/ InitializeFaceMesh("real")
    \/ Observed(2)
    \/ LoadModel
    \/ StartDetection
    \/ StartTimerFires
    \/ Detected(<<ClearPhone>>)
    \/ \E type \in EVENT_TYPES, outcome \in ForwardOutcomes : LogEventSettles(type, outcome)

SpecStream == Init /\ [][NextStream]_vars

\* The activation effect of useObjectDetection runs again after a render of the
\* page: handleObjectDetection is a new function in every render, so
\* runDetection and startDetection are rebuilt and the effect's dependencies
\* change.  Its cleanup calls stopDetection, which clears the interval the ref
\* holds; loadModel returns at once, the model being loaded; startDetection
\* finds the ref empty and arms a timeout.  A timeout armed earlier stays.
RerunEffect ==
    /\ isActive
    /\ objModelReady
    /\ objInterval' = FALSE
    /\ objIntervals' = IF objInterval THEN objIntervals - 1 ELSE objIntervals
    /\ objStartTimer' = objStartTimer + 1
    /\ objStartTimer' + objIntervals' <= MaxTimers
    /\ UNCHANGED <<now, pageVars, faceVars, sessionVars, fixedVars, integrityScore,
                   lastLogReturn, objModelReady, isDetecting, inFlight>>

\* The object observer with the re-runs of its activation effect.
NextRerun ==
    \/ Tick
    \/ InitializeCamera
    \/ StartProctoring
    \/ LoadModel
    \/ StartDetection
    \/ RerunEffect
    \/ StartTimerFires
    \/ PollTick
    \/ \E predictions \in {<<>>, <<ClearPhone>>} : DetectionDone(predictions)
    \/ DetectionFails
    \/ \E type \in EVENT_TYPES, outcome \in ForwardOutcomes : LogEventSettles(type, outcome)
    \/ StopProctoring

SpecRerun == Init /\ [][NextRerun]_vars

\* The page's state as the steps of the route handler leave it.
routeFrame ==
    <<now, pageVars, faceVars, objVars, sessionVars, mountTime, deductions,
      integrityScore, lastLogReturn>>

\* A request reaches the route handler.
Receive(req) ==
    /\ request = <<>>
    /\ request' = <<req>>
    /\ response' = <<>>
    /\ UNCHANGED routeFrame

\* POST returns its response.
Respond ==
    /\ request # <<>>
    /\ response = <<>>
    /\ response' = <<POST(request[1], now)>>
    /\ UNCHANGED <<request, routeFrame>>

\* The response is sent and the handler is free for the next request.
Sent ==
    /\ response # <<>>
    /\ request' = <<>>
    /\ response' = <<>>
    /\ UNCHANGED routeFrame

\* The route handler, called with every request.
NextPost ==
    \/ \E req \in Requests : Receive(req)
    \/ Respond
    \/ Sent

SpecPost == Init /\ [][NextPost]_vars

----------------------------------------------------------------------------
(* What the specification says of kinds: each kind's cooldown window and its
   own entry of the deduction table. *)

Cooldown(kind) ==
    IF kind \in {"phone_detected", "book_detected"} THEN OBJECT_EVENTS ELSE FACE_EVENTS

DeductionOf(kind, table) ==
    CASE kind = "looking_away"   -> table.LOOKING_AWAY
      [] kind = "face_absent"    -> table.FACE_ABSENT
      [] kind = "multiple_faces" -> table.MULTIPLE_FACES
      [] kind = "phone_detected" -> table.PHONE_DETECTED
      [] kind = "book_detected"  -> table.BOOK_DETECTED

RECURSIVE SumDeductions(_, _)
SumDeductions(log, table) ==
    IF log = <<>> THEN 0
    ELSE DeductionOf(Head(log).type, table) + SumDeductions(Tail(log), table)

ForwardFailures == ForwardOutcomes \ {"ok"}

\* The step appends exactly one event, of this kind.
Accepts(kind) ==
    /\ Len(events') = Len(events) + 1
    /\ events'[Len(events')].type = kind

----------------------------------------------------------------------------
(* Claims *)

\* C1: in every reachable state the integrity score is an integer between 0 and
\* 100.
C1_ScoreInRange == integrityScore \in 0..INITIAL_SCORE

\* C1 witness: the floor has acted, the deductions of the log exceed 100.
C1_Witness ==
    /\ integrityScore = 0
    /\ PendingCount(pendingLog) = 0
    /\ SumDeductions(events, deductions) > INITIAL_SCORE

\* C2: within a session no step increases the integrity score, and a step that
\* changes it is addEvent applying a deduction.
C2_ScoreNonIncreasing ==
    [][(isProctoring /\ isProctoring') =>
          /\ integrityScore' <= integrityScore
          /\ integrityScore' # integrityScore =>
                 \E type \in EVENT_TYPES, outcome \in ForwardOutcomes :
                     LogEventSettles(type, outcome)]_vars

\* C2 witness: a session in which a deduction has been applied.
C2_Witness == isProctoring /\ integrityScore < INITIAL_SCORE

\* C3: any two events of one kind in the log lie at least that kind's cooldown
\* apart.
C3_CooldownSpacing ==
    \A i, j \in 1..Len(events) :
        (i < j /\ events[i].type = events[j].type) =>
            events[j].timestamp - events[i].timestamp >= Cooldown(events[i].type)

\* C4: onResults passes a face_absent candidate on only for an observation
\* with no face made more than FACE_ABSENT_THRESHOLD after the period of absence
\* began, and every processed observation with a face restarts that period.
C4_AbsenceDebounced ==
    [][\A faceCount \in 0..MaxFaces :
          (FaceResults(faceCount) /\ ResultsProcessed) =>
              /\ faceCount >= 1 => lastFaceTime' = now
              /\ FaceResult(faceMesh, faceCount, lastFaceTime, now)
                     = <<[hasFace |-> FALSE, faceCount |-> 0, isLookingAway |-> FALSE]>>
                 => (faceCount = 0 /\ now - lastFaceTime > FACE_ABSENT_THRESHOLD)]_vars

\* C5: the report stopProctoring stores has every deduction of its events
\* applied: its score is max(0, 100 - the deductions of its events).
C5_ReportScoreMatchesLog ==
    report # <<>> =>
        report[1].integrityScore =
            Max(0, INITIAL_SCORE - SumDeductions(report[1].events, deductions))

\* C6: once stopProctoring has run, an observation that arrives changes neither
\* the log, the ledger nor the score, and starts no forwarding call.
C6_IgnoredAfterStop ==
    [][(/\ stopped
        /\ \/ \E faceCount \in 0..MaxFaces : FaceResults(faceCount)
           \/ \E predictions \in Batches : DetectionDone(predictions))
       => UNCHANGED <<events, lastEventTime, integrityScore, pendingLog>>]_vars

\* C7: a forwarding call that fails makes logEvent return null, and leaves log,
\* score, ledger and session as a call that succeeds does.
C7_ForwardFailureSwallowed ==
    [][\A type \in EVENT_TYPES, outcome \in ForwardFailures :
          LogEventSettles(type, outcome) =>
              /\ lastLogReturn' = "null"
              /\ integrityScore' = ScoreAfterLog(integrityScore, type, LogEvent("ok"))
              /\ UNCHANGED <<events, lastEventTime, isProctoring>>]_vars

\* C7 witness: a forwarding call has failed in a session, which is still active
\* and has the deduction applied.
C7_Witness ==
    /\ lastLogReturn = "null"
    /\ isProctoring
    /\ PendingCount(pendingLog) = 0
    /\ Len(events) = 1
    /\ integrityScore = INITIAL_SCORE - DeductionOf(events[1].type, deductions)

\* C8: the deduction of an accepted event does not wait for its forwarding
\* call: also while calls are in flight, the score has the deduction of every
\* event of the log.
C8_DeductionNotBehindForward ==
    integrityScore = Max(0, INITIAL_SCORE - SumDeductions(events, deductions))

\* The ledger has no acceptance of the kind, or the last one lies at least the
\* kind's cooldown back.
GateOpen(kind) ==
    \/ kind \notin DOMAIN lastEventTime
    \/ now - lastEventTime[kind] >= Cooldown(kind)

\* The step hands a candidate of the kind to handleFaceDetection.
FaceCandidate(faceCount, kind) ==
    /\ FaceResults(faceCount)
    /\ ResultsProcessed
    /\ FaceResult(faceMesh, faceCount, lastFaceTime, now) # <<>>
    /\ kind = IF faceCount = 0 THEN "face_absent" ELSE "multiple_faces"

\* The step hands a candidate of the kind to handleObjectDetection.
ObjectCandidate(prediction, kind) ==
    /\ DetectionDone(<<prediction>>)
    /\ Retained(prediction)
    /\ \/ prediction.class = "cell phone" /\ kind = "phone_detected"
       \/ prediction.class = "book" /\ kind = "book_detected"

\* C9: the gate accepts a candidate of a kind iff the ledger has no acceptance
\* of that kind or the last one lies at least the kind's cooldown back, also when
\* the recorded time is 0, and an acceptance is stamped with the time of the
\* candidate.
C9_GateDecision ==
    [][\A kind \in EVENT_TYPES :
          (\/ \E faceCount \in 0..MaxFaces : FaceCandidate(faceCount, kind)
           \/ \E prediction \in Predictions : ObjectCandidate(prediction, kind))
          => /\ Accepts(kind) <=> GateOpen(kind)
             /\ Accepts(kind) => lastEventTime'[kind] = now]_vars

\* C10: the deduction applied for an event is its kind's own entry of the
\* configured table.
C10_OwnDeduction ==
    [][\A type \in EVENT_TYPES, outcome \in ForwardOutcomes :
          LogEventSettles(type, outcome) =>
              integrityScore' = Max(0, integrityScore - DeductionOf(type, deductions))]_vars

\* C11: no face_absent event is accepted from the face observer during the first
\* FACE_ABSENT_THRESHOLD after startProctoring, however long the page was open
\* before the session started.
C11_GraceAfterStart ==
    [][\A faceCount \in 0..MaxFaces :
          (FaceResults(faceCount) /\ startTime # <<>> /\ Accepts("face_absent"))
              => now - startTime[1] >= FACE_ABSENT_THRESHOLD]_vars

\* C12: once the face detector has failed to load (the fallback face mesh is
\* registered in its place), the face observer delivers no candidate: no step of
\* its result handler accepts an event.
C12_FailedSourceSilent ==
    [][\A faceCount \in 0..MaxFaces :
          (FaceResults(faceCount) /\ faceMesh = "mock") => UNCHANGED events]_vars

\* C13: once stopProctoring has stopped both observers, no detection is run and
\* no observation callback (onFaceDetection, onObjectDetection) is invoked, also
\* when the stop came during the start-up delay of the polling timer or while a
\* frame or a detection was in flight.
C13_StopHaltsObservers ==
    [][stopped =>
          /\ ~PollTick
          /\ \A faceCount \in 0..MaxFaces :
                 ~(/\ FaceResults(faceCount)
                   /\ ResultsProcessed
                   /\ FaceResult(faceMesh, faceCount, lastFaceTime, now) # <<>>)
          /\ \A predictions \in Batches :
                 ~(DetectionDone(predictions) /\ TargetDetections(predictions) # <<>>)]_vars

\* C14: every event of the log has an id distinct from the id of every other
\* event of the log.
C14_UniqueIds ==
    \A i, j \in 1..Len(events) : i # j => events[i].id # events[j].id

\* log is a prefix of next.
IsPrefix(log, next) ==
    /\ Len(log) <= Len(next)
    /\ \A i \in 1..Len(log) : next[i] = log[i]

Kept(predictions, class) ==
    \E i \in 1..Len(predictions) :
        /\ predictions[i].class = class
        /\ predictions[i].class \in TARGET_OBJECTS
        /\ predictions[i].score >= CONFIDENCE_THRESHOLD

\* The step appends an event of the kind with severity high.
AppendsHigh(kind) ==
    \E i \in (Len(events) + 1)..Len(events') :
        events'[i].type = kind /\ events'[i].severity = "high"

\* C16: of a detection batch exactly the predictions with a class of
\* TARGET_OBJECTS and a score >= CONFIDENCE_THRESHOLD are passed on; a kept
\* 'cell phone' is a phone_detected candidate and a kept 'book' a book_detected
\* candidate, both of severity high (accepted when the ledger has no entry of the
\* kind), and a batch with neither reaches no gate.
C16_ObjectFilter ==
    [][(isDetecting /\ ~isDetecting') => \A predictions \in Batches :
          DetectionDone(predictions) =>
              /\ AppendsHigh("phone_detected") => Kept(predictions, "cell phone")
              /\ AppendsHigh("book_detected") => Kept(predictions, "book")
              /\ ("phone_detected" \notin DOMAIN lastEventTime
                      /\ Kept(predictions, "cell phone"))
                     => AppendsHigh("phone_detected")
              /\ ("book_detected" \notin DOMAIN lastEventTime /\ Kept(predictions, "book"))
                     => AppendsHigh("book_detected")
              /\ \A i \in (Len(events) + 1)..Len(events') :
                     /\ events'[i].type \in {"phone_detected", "book_detected"}
                     /\ events'[i].severity = "high"
              /\ (~Kept(predictions, "cell phone") /\ ~Kept(predictions, "book"))
                     => UNCHANGED <<events, lastEventTime, pendingLog>>]_vars

\* C16 witness: one batch with a phone and a book has passed the filter and both
\* candidates were accepted.
C16_Witness ==
    /\ objModelReady
    /\ Len(events) = 2
    /\ events[1].type = "phone_detected" /\ events[2].type = "book_detected"
    /\ events[1].severity = "high" /\ events[2].severity = "high"
    /\ DOMAIN lastEventTime = {"phone_detected", "book_detected"}
    /\ lastEventTime["phone_detected"] = events[1].timestamp
    /\ lastEventTime["book_detected"] = events[2].timestamp
    /\ events[1].timestamp = events[2].timestamp

\* C17: the second load of the report of a finished session yields the same
\* values as the first, and the stored report stays as stopProctoring wrote it.
C17_ReportLoadIdempotent ==
    /\ Len(loads) = 2 => loads[2] = loads[1]
    /\ Len(loads) >= 1 => report = <<loads[1]>>

\* C18: the report stopProctoring stores has the stop time as its endTime, and
\* its duration is endTime - startTime of the same report in whole seconds.
C18_DurationIsEndMinusStart ==
    [][StopProctoring =>
          /\ report'[1].endTime = now
          /\ report'[1].duration =
                 (report'[1].endTime - report'[1].startTime[1]) \div MS_PER_SECOND]_vars

\* C19: startProctoring makes the session active and leaves the score at 100,
\* the log empty, the duration 0 and startTime at the time of the start.
C19_StartResets ==
    [][(~isProctoring /\ isProctoring') =>
          /\ integrityScore' = INITIAL_SCORE
          /\ events' = <<>>
          /\ interviewDuration' = 0
          /\ startTime' = <<now>>
          /\ ~stopped']_vars

\* C19 witness: a session started some time after the page was mounted, in the
\* state startProctoring left.
C19_Witness ==
    /\ isProctoring
    /\ now > mountTime
    /\ startTime = <<now>>
    /\ integrityScore = INITIAL_SCORE
    /\ events = <<>>
    /\ interviewDuration = 0

\* C20: Scenario A: when the face observer has reported no face on every
\* observation for ScenarioLength (11000 ms) from the start of the session, the
\* log holds exactly one event, a face_absent of severity high, and once its
\* forwarding call has settled the score is 90.
C20_ScenarioA ==
    (/\ isProctoring
     /\ faceMesh = "real"
     /\ now - startTime[1] = ScenarioLength)
        => /\ Len(events) = 1
           /\ events[1].type = "face_absent"
           /\ events[1].severity = "high"
           /\ PendingCount(pendingLog) = 0 => integrityScore = 90

\* Scenario A has gone as it says: the first event of the log is a face_absent
\* accepted after the threshold, at most ScenarioLength after the start.
ScenarioADone ==
    /\ isProctoring
    /\ faceMesh = "real"
    /\ Len(events) >= 1
    /\ events[1].type = "face_absent"
    /\ events[1].timestamp - startTime[1] > FACE_ABSENT_THRESHOLD
    /\ events[1].timestamp - startTime[1] <= ScenarioLength

\* C21 as stated: Scenario B: after Scenario A, with further face_absent
\* candidates at the 12000 ms and the 13000 ms mark, the log holds exactly one
\* more face_absent event at the 13000 ms mark, and the score is 80.
C21_ScenarioB_Stated ==
    (ScenarioADone /\ now - startTime[1] = ScenarioEnd)
        => /\ Len(events) = 2
           /\ PendingCount(pendingLog) = 0 => integrityScore = 80

\* C21: Scenario B as the gate decides it: after Scenario A, the face_absent
\* candidates at the 12000 ms and the 13000 ms mark lie within FACE_EVENTS of
\* the first acceptance and are both rejected: the log still holds the one event,
\* and the score is 90 once its forwarding call has settled.
C21_ScenarioB ==
    (ScenarioADone /\ now - startTime[1] > ScenarioLength)
        => /\ Len(events) = 1
           /\ PendingCount(pendingLog) = 0 => integrityScore = 90

\* C21 witness: the 13000 ms mark of Scenario B, the forwarding call settled.
C21_Witness ==
    /\ ScenarioADone
    /\ now - startTime[1] = ScenarioEnd
    /\ lastEventTime["face_absent"] = events[1].timestamp
    /\ PendingCount(pendingLog) = 0
    /\ integrityScore = 90

\* C22: Scenario C: in a fresh session the detection of a phone at 0.75 leaves
\* exactly one event, a phone_detected of severity high, and the score is 80
\* when addEvent has completed; the detection of a phone at 0.55, 2000 ms later,
\* is dropped by the filter and leaves log, ledger, score and forwarding calls
\* as they are.
C22_ScenarioC ==
    /\ [][FirstDetection =>
             /\ Len(events') = 1
             /\ events'[1].type = "phone_detected"
             /\ events'[1].severity = "high"
             /\ lastEventTime'["phone_detected"] = now]_vars
    /\ []((Len(events) = 1 /\ PendingCount(pendingLog) = 0) => integrityScore = 80)
    /\ [][SecondDetection =>
             /\ TargetDetections(<<FaintPhone>>) = <<>>
             /\ UNCHANGED <<events, lastEventTime, integrityScore, pendingLog>>]_vars

\* C22 witness: the second detection of Scenario C has been dropped, 2000 ms
\* after the first was accepted and with the first event's deduction applied.
C22_Witness ==
    /\ isProctoring
    /\ Len(events) = 1
    /\ events[1].type = "phone_detected"
    /\ now = events[1].timestamp + DetectionGapMs
    /\ ~isDetecting
    /\ PendingCount(pendingLog) = 0
    /\ integrityScore = 80

\* C23: Scenario D: a processed observation with two faces is a multiple_faces
\* candidate at once, whatever was observed before; with the gate open it is
\* accepted on that step with severity high, and its deduction takes 15 off the
\* score (100 to 85 in a fresh session).
C23_ScenarioD ==
    /\ [][\A faceCount \in 2..MaxFaces :
             (FaceResults(faceCount) /\ ResultsProcessed /\ GateOpen("multiple_faces"))
                 => /\ Accepts("multiple_faces")
                    /\ events'[Len(events')].severity = "high"
                    /\ events'[Len(events')].timestamp = now]_vars
    /\ [][\A outcome \in ForwardOutcomes :
             LogEventSettles("multiple_faces", outcome)
                 => integrityScore' = Max(0, integrityScore - 15)]_vars

\* C23 witness: a fresh session whose only event is the multiple_faces event of
\* an observation, with the score at 85.
C23_Witness ==
    /\ isProctoring
    /\ Len(events) = 1
    /\ events[1].type = "multiple_faces"
    /\ "multiple_faces" \in DOMAIN lastEventTime
    /\ lastFaceTime < events[1].timestamp
    /\ PendingCount(pendingLog) = 0
    /\ integrityScore = 85

\* C24: Scenario E: a session in which no observation qualifies for its whole
\* duration, also with a detector that failed to load, ends with a report of no
\* events and an integrity score of 100.
C24_ScenarioE ==
    report # <<>> =>
        /\ report[1].events = <<>>
        /\ report[1].integrityScore = INITIAL_SCORE

\* C25: when the participant has looked away from the screen, one face in view,
\* for more than LOOKING_AWAY_THRESHOLD, a looking_away event of severity medium
\* is recorded, at the latest by the end of the scenario.
C25_LookingAwayRecorded ==
    /\ LOOKING_AWAY_THRESHOLD < ScenarioEnd
    /\ (isActive /\ faceMesh = "real" /\ now - startTime[1] >= ScenarioEnd) =>
           \E i \in 1..Len(events) :
               events[i].type = "looking_away" /\ events[i].severity = "medium"

\* C26: the session identifier is fixed for the life of the session: every body
\* posted for an event carries the same interviewId, and the report stored at
\* the stop carries that interviewId too.
C26_OneInterviewId ==
    /\ \A i, j \in 1..Len(logCalls) : logCalls[i].interviewId = logCalls[j].interviewId
    /\ report # <<>> =>
           \A i \in 1..Len(logCalls) : logCalls[i].interviewId = report[1].interviewId

\* C26 witness: a stored report of a session that posted two events, accepted at
\* different times.
C26_Witness ==
    /\ report # <<>>
    /\ Len(logCalls) = 2
    /\ logCalls[1].timestamp < logCalls[2].timestamp

\* The body posted for an event of the log.
BodyOf(event) ==
    [type |-> event.type, description |-> event.description,
     severity |-> event.severity, timestamp |-> event.timestamp]

\* A posted body without its interviewId.
EventOf(body) ==
    [type |-> body.type, description |-> body.description,
     severity |-> body.severity, timestamp |-> body.timestamp]

StreamCandidate(kind) ==
    \/ kind = "multiple_faces" /\ Observed(2)
    \/ kind = "phone_detected" /\ Detected(<<ClearPhone>>)

\* C28: a candidate the cooldown gate rejects changes nothing: the log, the
\* score, the whole ledger (the time of the rejected kind included) and the
\* forwarding calls stay as they are; so in a continuous stream of candidates of
\* a kind the candidate that comes when the kind's cooldown has elapsed since
\* the last acceptance is accepted.
C28_RejectedChangesNothing ==
    [][\A kind \in EVENT_TYPES :
          StreamCandidate(kind) =>
              /\ InCooldown(lastEventTime, kind, now', Cooldown(kind)) =>
                     UNCHANGED <<events, integrityScore, lastEventTime, logCalls,
                                 pendingLog>>
              /\ (/\ kind \in DOMAIN lastEventTime
                  /\ now' - lastEventTime[kind] >= Cooldown(kind)) =>
                     Accepts(kind) /\ lastEventTime'[kind] = now']_vars

\* C28 witness: a stream of two-face observations, one every ScenarioMs, whose
\* second event was accepted FACE_EVENTS after the first: the candidates that
\* came between the two were rejected.
C28_Witness ==
    /\ faceMesh = "real"
    /\ ScenarioMs < FACE_EVENTS
    /\ Len(events) = 2
    /\ events[1].type = "multiple_faces" /\ events[2].type = "multiple_faces"
    /\ events[2].timestamp = events[1].timestamp + FACE_EVENTS
    /\ lastEventTime["multiple_faces"] = events[2].timestamp

\* C29: every processed face observation with one face or more, on the handler
\* of the real face mesh and on the one of the fallback, sets
\* lastFaceTimeRef.current to the time of the observation.
C29_FaceSeenRefreshed ==
    [][\A faceCount \in 1..MaxFaces :
          (FaceResults(faceCount) /\ ResultsProcessed) => lastFaceTime' = now]_vars

\* C30: lastFaceTimeRef.current never decreases, and no step changes it but a
\* processed face observation with one face or more: not an observation with no
\* face, an object detection, an acceptance, a settled forwarding call, a demo
\* event, the start or the stop.
C30_FaceSeenMonotonic ==
    [][/\ lastFaceTime' >= lastFaceTime
       /\ lastFaceTime' # lastFaceTime =>
              \E faceCount \in 1..MaxFaces : FaceResults(faceCount) /\ ResultsProcessed]_vars

\* C30 witness: a stopped session with an event in its log whose face observer
\* has refreshed the time after the mount.
C30_Witness ==
    /\ stopped
    /\ events # <<>>
    /\ lastFaceTime > mountTime

\* The step appends an event of the kind to the log.
AcceptedInStep(kind) ==
    \E i \in (Len(events) + 1)..Len(events') : events'[i].type = kind

\* The step writes the ledger entry of the kind.
LedgerWritten(kind) ==
    /\ kind \in DOMAIN lastEventTime'
    /\ kind \notin DOMAIN lastEventTime \/ lastEventTime'[kind] # lastEventTime[kind]

\* Batches that hold a clear phone and a clear book, in either order.
PhoneAndBook ==
    { <<[class |-> "cell phone", score |-> 75], [class |-> "book", score |-> 75]>>,
      <<[class |-> "book", score |-> 75], [class |-> "cell phone", score |-> 75]>> }

\* C31: the cooldown ledger is per kind: a step writes the entry of a kind only
\* by accepting an event of that kind, and in a batch with a phone and a book
\* each of the two is accepted exactly when its own entry lets it pass, whatever
\* happens to the other.
C31_LedgerPerKind ==
    /\ [][\A kind \in EVENT_TYPES : LedgerWritten(kind) => AcceptedInStep(kind)]_vars
    /\ [][\A batch \in PhoneAndBook :
              DetectionDone(batch) =>
                  \A kind \in {"phone_detected", "book_detected"} :
                      AcceptedInStep(kind)
                          <=> ~InCooldown(lastEventTime, kind, now, OBJECT_EVENTS)]_vars

\* C31 witness: a batch with a phone and a book came while the phone was in its
\* cooldown and the book was not: the log holds the earlier phone_detected and
\* then the book_detected, each kind with its own time in the ledger.
C31_Witness ==
    /\ Len(events) = 2
    /\ events[1].type = "phone_detected" /\ events[2].type = "book_detected"
    /\ events[1].timestamp < events[2].timestamp
    /\ lastEventTime = [k \in {"phone_detected", "book_detected"} |->
                          IF k = "phone_detected" THEN events[1].timestamp
                          ELSE events[2].timestamp]

\* Batches of two retained detections of one class, a phone or a book.
SameClassPairs ==
    { batch \in [1..2 -> Predictions] :
          /\ batch[1].class = batch[2].class
          /\ batch[1].class \in {"cell phone", "book"}
          /\ Retained(batch[1]) /\ Retained(batch[2]) }

\* The event kind of a class of object.
KindOf(class) == IF class = "cell phone" THEN "phone_detected" ELSE "book_detected"

\* C32: from a batch with two retained detections of one class at most one
\* event of the kind is accepted: exactly one when the ledger lets the kind
\* pass, none otherwise.
C32_OnePerKindPerBatch ==
    [][\A batch \in SameClassPairs :
          DetectionDone(batch) =>
              Len(events') - Len(events) =
                  IF InCooldown(lastEventTime, KindOf(batch[1].class), now, OBJECT_EVENTS)
                  THEN 0 ELSE 1]_vars

\* The results handleFaceDetection can be called with.
FaceDetectionResults == [hasFace : BOOLEAN, faceCount : 0..MaxFaces, isLookingAway : BOOLEAN]

\* The kind the fixed priority picks for a result, "none" when it picks nothing.
PriorityKind(result) ==
    IF ~result.hasFace THEN "face_absent"
    ELSE IF result.faceCount > 1 THEN "multiple_faces"
    ELSE IF result.isLookingAway THEN "looking_away"
    ELSE "none"

\* C33: one face observation yields at most one accepted event, of the kind
\* the fixed priority picks (face_absent with no face, else multiple_faces with
\* several faces, else looking_away when flagged); when the gate rejects that
\* kind nothing is accepted in its place.
C33_OneEventByPriority ==
    /\ [](\A result \in FaceDetectionResults :
             LET after == HandleFaceDetection(PageState, result, now)
                 kind == PriorityKind(result)
             IN  IF kind = "none" \/ InCooldown(lastEventTime, kind, now, FACE_EVENTS)
                 THEN after = PageState
                 ELSE /\ Len(after.events) = Len(events) + 1
                      /\ SubSeq(after.events, 1, Len(events)) = events
                      /\ after.events[Len(after.events)].type = kind)
    /\ [][\A faceCount \in 0..MaxFaces :
              FaceResults(faceCount) => Len(events') <= Len(events) + 1]_vars

\* C33 witness: the real face mesh has reported two faces and multiple_faces
\* was accepted; the kind is in its cooldown, so a further result with two
\* faces, flagged as looking away or not, is dropped.
C33_Witness ==
    /\ faceMesh = "real"
    /\ events # <<>>
    /\ events[Len(events)].type = "multiple_faces"
    /\ InCooldown(lastEventTime, "multiple_faces", now, FACE_EVENTS)
    /\ HandleFaceDetection(PageState,
                           [hasFace |-> TRUE, faceCount |-> 2, isLookingAway |-> TRUE],
                           now) = PageState

\* Predictions of the target classes that have no branch in
\* handleObjectDetection, at the threshold and above it.
OtherTargets ==
    [class : {"laptop", "mouse", "keyboard"}, score : {CONFIDENCE_THRESHOLD, 75}]

\* C34: a retained detection of a laptop, a mouse or a keyboard produces no
\* event: the log, the score, the ledger and the forwarding calls stay as they
\* are; the object observer puts only phone_detected and book_detected into the
\* log.
C34_OtherTargetsSilent ==
    /\ [](\A prediction \in OtherTargets :
             /\ Retained(prediction)
             /\ OnPredictions(PageState, <<prediction>>, now) = PageState)
    /\ [][\A prediction \in OtherTargets \cap Predictions :
              DetectionDone(<<prediction>>) =>
                  UNCHANGED <<events, integrityScore, lastEventTime, logCalls,
                              pendingLog>>]_vars
    /\ [](\A i \in 1..Len(events) :
             events[i].type \in {"phone_detected", "book_detected"})

\* C34 witness: a detection is in flight in a session that has an event in its
\* log; resolving with a laptop at 0.75, which the filter retains, it leaves
\* the page as it is.
C34_Witness ==
    /\ isDetecting
    /\ events # <<>>
    /\ [class |-> "laptop", score |-> 75] \in OtherTargets \cap Predictions
    /\ TargetDetections(<<[class |-> "laptop", score |-> 75]>>) # <<>>
    /\ OnPredictions(PageState, <<[class |-> "laptop", score |-> 75]>>, now) = PageState

\* C35: the object observer never has two detections in flight: the flag is up
\* exactly while a detection is in flight, and while one is in flight no step
\* (a tick of the polling timer, a call of runDetection) starts another.
C35_OneDetectionInFlight ==
    /\ [](inFlight <= 1 /\ (isDetecting <=> inFlight = 1))
    /\ [][inFlight > 0 => inFlight' <= inFlight]_vars

\* C35 witness: a detection is in flight while the polling timer, which ticks
\* on, is alive, in a session that has had an earlier detection accepted.
C35_Witness ==
    /\ inFlight = 1
    /\ objIntervals > 0
    /\ events # <<>>
    /\ ~ENABLED PollTick

\* C36: a detection run that throws is absorbed: nothing is handed to the
\* callback (log, ledger, score and forwarding calls stay), the flag is reset,
\* and with the flag down a tick of a live polling timer runs a detection again.
C36_FailedRunAbsorbed ==
    /\ [][DetectionFails =>
              /\ UNCHANGED <<events, integrityScore, lastEventTime, logCalls, pendingLog>>
              /\ ~isDetecting'
              /\ inFlight' = 0]_vars
    /\ []((objIntervals > 0 /\ objModelReady /\ inFlight = 0) => ENABLED PollTick)

\* C36 witness: no detection is in flight after one has settled in a session
\* with a live polling timer and a logged event, and the next tick can run.
C36_Witness ==
    /\ inFlight = 0
    /\ ~isDetecting
    /\ objIntervals > 0
    /\ isActive
    /\ events # <<>>
    /\ ENABLED PollTick

\* Sums of deductions up to past the initial score, in steps of the smallest
\* entry of the table.
DeductionSums == { 5 * n : n \in 0..(INITIAL_SCORE \div 5 + 4) }

\* C37: whenever no addEvent call is suspended at its forwarding call, the
\* integrity score is max(0, 100 - the sum of the deductions of the kinds of
\* the events in the log), under the table the program ships with; the floor
\* applied event by event gives the floor of the sum.
C37_ScoreIsSumWhenSettled ==
    /\ [](PendingCount(pendingLog) = 0 =>
              integrityScore = Max(0, INITIAL_SCORE - SumDeductions(events, deductions)))
    /\ [](\A sum \in DeductionSums, type \in EVENT_TYPES :
              NewScore(Max(0, INITIAL_SCORE - sum), ScoreDeduction(type, deductions))
                  = Max(0, INITIAL_SCORE - sum - DeductionOf(type, deductions)))

\* C37 witness: two events of different kinds, a book among them, in the log,
\* both forwarding calls settled, one of them failed, both deductions applied.
C37_Witness ==
    /\ Len(events) = 2
    /\ events[1].type # events[2].type
    /\ \E i \in 1..2 : events[i].type = "book_detected"
    /\ PendingCount(pendingLog) = 0
    /\ lastLogReturn = "null"
    /\ integrityScore = INITIAL_SCORE - SumDeductions(events, deductions)
    /\ integrityScore < INITIAL_SCORE

\* C38: at most one polling timer of the object observer exists at any time,
\* however often startDetection is called, and the stop clears every interval
\* that was made.
C38_OnePollingTimer ==
    /\ [](objIntervals <= 1)
    /\ [][StopProctoring => objIntervals' = 0]_vars

\* The request's body parses to an object.
ParsesToObject(req) == req.body.text = "object"

\* The request's body is an object that has type, description and severity.
HasAllThree(req) ==
    /\ ParsesToObject(req)
    /\ \A field \in {"type", "description", "severity"} :
           req.body[field] \notin {"absent", ""}

\* The response is an error of the status.
ErrorOf(resp, status) ==
    /\ resp.status = status
    /\ "error" \in DOMAIN resp.body
    /\ "success" \notin DOMAIN resp.body

\* C39: POST /api/log-event never returns a success for an invalid request: a
\* request whose content type is not application/json gets 400 with an error
\* field, and so does one whose body lacks type, description or severity; a
\* request whose handling throws gets 500; a request with all three fields,
\* and no other, gets {success: true, id, message}.
C39_PostValidates ==
    response # <<>> =>
        LET req == request[1]
            resp == response[1]
        IN  /\ req.contentType \notin {"application/json", "application/json; charset=utf-8"}
                   => ErrorOf(resp, 400)
            /\ (IncludesJson(req.contentType) /\ ~ParsesToObject(req))
                   => ErrorOf(resp, 500)
            /\ (IncludesJson(req.contentType) /\ ParsesToObject(req) /\ ~HasAllThree(req))
                   => ErrorOf(resp, 400)
            /\ (IncludesJson(req.contentType) /\ HasAllThree(req))
                   => /\ resp.status = 200
                      /\ DOMAIN resp.body = {"success", "id", "message"}
                      /\ resp.body.success
            /\ "success" \in DOMAIN resp.body
                   => IncludesJson(req.contentType) /\ HasAllThree(req)

\* C39 witness: a JSON request with a type and a description and no severity
\* has been answered with 400.
C39_Witness ==
    /\ response # <<>>
    /\ request[1].contentType = "application/json"
    /\ ParsesToObject(request[1])
    /\ request[1].body.type = "value" /\ request[1].body.description = "value"
    /\ request[1].body.severity = "absent"
    /\ response[1].status = 400

====
